---- MODULE Spec2Model ----
(***************************************************************************)
(* Model of sentry.auth.email: resolve_email_to_user and _EmailResolver.   *)
(*                                                                         *)
(* One behaviour is one call.  The initial state fixes the UserEmail table *)
(* and the set of active users; the call is either the public entry point  *)
(* resolve_email_to_user(email, organization) or a direct call of          *)
(* _EmailResolver(email, organization).resolve(candidates).  The loop of   *)
(* resolve() is modelled one iteration per action, so the candidate tuple  *)
(* between two steps is a state of the model.  The membership lookup of    *)
(* HasOrgMembership is outside this module: it answers with any of the     *)
(* user ids it was asked about, or raises.                                 *)
(***************************************************************************)
EXTENDS Integers, Sequences, FiniteSets, TLC

\* ---------------------------------------------------------------- bounds
\* Largest number of UserEmail rows in the table.
MaxRows == 3
\* User ids are 1..MaxUsers.
MaxUsers == 2

UserIds == 1..MaxUsers

\* ---------------------------------------------------------------- emails
\* An email address is a sequence of characters.  Rows hold one of two
\* spellings of the same address; a query asks for one of the spellings or
\* for another address.
RowEmails == { <<"a", "@", "x">>, <<"A", "@", "x">> }
QueryEmails == { <<"A", "@", "x">>, <<"b", "@", "x">> }

LowerChar(c) == CASE c = "A" -> "a"
                  [] c = "B" -> "b"
                  [] c = "X" -> "x"
                  [] OTHER -> c

Lower(s) == [i \in DOMAIN s |-> LowerChar(s[i])]

\* email__iexact: equality up to letter case.
IExact(a, b) == Lower(a) = Lower(b)

\* ---------------------------------------------------------------- rows
\* A UserEmail row: the owning user, the address as stored, the
\* verification flag, and the value is_primary() returns for it.
Rows == [user_id : UserIds, email : RowEmails,
         is_verified : BOOLEAN, is_primary : BOOLEAN]

\* The tables of at most MaxRows rows, one row at most per (user, email).
RECURSIVE SubsetsUpTo(_, _)
SubsetsUpTo(S, n) ==
    IF n = 0 \/ S = {} THEN { {} }
    ELSE LET x == CHOOSE y \in S : TRUE
             rest == SubsetsUpTo(S \ {x}, n)
             with == { T \cup {x} : T \in SubsetsUpTo(S \ {x}, n - 1) }
         IN  rest \cup with

Keys == UserIds \X RowEmails

Tables ==
    UNION { { { [user_id |-> k[1], email |-> k[2],
                 is_verified |-> f[k][1], is_primary |-> f[k][2]] : k \in K }
              : f \in [K -> BOOLEAN \X BOOLEAN] }
            : K \in SubsetsUpTo(Keys, MaxRows) }

Range(s) == { s[i] : i \in DOMAIN s }

\* The query of resolve_email_to_user states no order: the rows of a result
\* come in any order, each row once.
Orderings(S) == { s \in [1..Cardinality(S) -> S] : Range(s) = S }

\* ---------------------------------------------------------------- state
VARIABLES
    table,            \* UserEmail rows
    active,           \* ids of the users with is_active
    pc,               \* "idle", "resolve", "loop", "done"
    entry,            \* which function the caller invoked
    entered,          \* whether resolve() has been called
    input,            \* the candidates resolve() was called with
    email,            \* _EmailResolver.email
    organization,     \* _EmailResolver.organization: <<>> is None, <<o>> an organization
    candidates,       \* local candidates of resolve()
    last_candidates,  \* local last_candidates of resolve()
    step,             \* position in get_steps(): 1..3, 4 after the loop
    applied,          \* names of the steps whose apply() has been called
    metrics,          \* counter name -> number of metrics.incr calls
    oracle_calls,     \* calls of get_member_summaries_by_ids, in order
    users_in_org,     \* local users_in_org of HasOrgMembership.apply
    hook_calls,       \* calls of a step's if_conclusive, with their arguments
    outcome           \* how the call ended

vars == <<table, active, pc, entry, entered, input, email, organization, candidates,
          last_candidates, step, applied, metrics, oracle_calls,
          users_in_org, hook_calls, outcome>>

None == <<>>
Organizations == { None, <<1>> }

Counters == { "by_verification", "by_org_membership", "by_primary_email", "no_resolution" }

\* get_steps()
get_steps == << "IsVerified", "HasOrgMembership", "IsPrimary" >>

\* How a call ends: the value returned or the exception raised.  user is
\* the returned user, email and users the attributes of
\* AmbiguousUserFromEmail.
Pending ==
    [kind |-> "pending", user |-> None, email |-> None, users |-> <<>>]
ReturnNone ==
    [kind |-> "return_none", user |-> None, email |-> None, users |-> <<>>]
ReturnUser(ue) ==
    [kind |-> "return_user", user |-> <<ue.user_id>>, email |-> None, users |-> <<>>]
RaiseValueError ==
    [kind |-> "ValueError", user |-> None, email |-> None, users |-> <<>>]
\* An exception of get_member_summaries_by_ids, passing through resolve().
RaiseOracleError ==
    [kind |-> "oracle_error", user |-> None, email |-> None, users |-> <<>>]

\* [ue.user for ue in candidates]
UsersOf_drop_last(cands) == [i \in 1..(Len(cands) - 1) |-> cands[i].user_id]
UsersOf(cands) == [i \in DOMAIN cands |-> cands[i].user_id]

\* candidate_ids = [ue.user_id for ue in candidates]
candidate_ids_of_input(cands) == [i \in DOMAIN input |-> input[i].user_id]
candidate_ids(cands) == [i \in DOMAIN cands |-> cands[i].user_id]

AmbiguousUserFromEmail(e, cands) ==
    [kind |-> "AmbiguousUserFromEmail", user |-> None, email |-> e,
     users |-> UsersOf(cands)]

Init ==
    /\ table \in Tables
    /\ active \in SUBSET UserIds
    /\ pc = "idle"
    /\ entry = "none"
    /\ entered = FALSE
    /\ input = <<>>
    /\ email = <<>>
    /\ organization = None
    /\ candidates = <<>>
    /\ last_candidates = <<>>
    /\ step = 1
    /\ applied = <<>>
    /\ metrics = [c \in Counters |-> 0]
    /\ oracle_calls = <<>>
    /\ users_in_org = {}
    /\ hook_calls = <<>>
    /\ outcome = Pending

\* ---------------------------------------------------------------- steps
\* IsVerified.apply
IsVerified_apply_first(cands) ==
    LET kept == SelectSeq(cands, LAMBDA ue : ue.is_verified)
    IN  IF Len(kept) = 0 THEN kept ELSE <<kept[1]>>
IsVerified_apply_negated(cands) == SelectSeq(cands, LAMBDA ue : ~ue.is_verified)
IsVerified_apply(cands) == SelectSeq(cands, LAMBDA ue : ue.is_verified)

\* HasOrgMembership.apply, given the ids the membership lookup answered with.
HasOrgMembership_apply_on_input(org, cands, in_org) ==
    IF org = None THEN <<>>
    ELSE SelectSeq(input, LAMBDA ue : ue.user_id \in in_org)
HasOrgMembership_apply_negated(org, cands, in_org) ==
    IF org = None THEN <<>>
    ELSE SelectSeq(cands, LAMBDA ue : ue.user_id \notin in_org)
HasOrgMembership_apply(org, cands, in_org) ==
    IF org = None THEN <<>>
    ELSE SelectSeq(cands, LAMBDA ue : ue.user_id \in in_org)

\* IsPrimary.apply
IsPrimary_apply_by_verified(cands) == SelectSeq(cands, LAMBDA ue : ue.is_verified)
IsPrimary_apply(cands) == SelectSeq(cands, LAMBDA ue : ue.is_primary)

\* metrics.incr
incr(m, name) == [m EXCEPT ![name] = @ + 1]

\* The counter each step's if_conclusive increments.
ConclusiveCounter(name) ==
    CASE name = "IsVerified" -> "by_verification"
      [] name = "HasOrgMembership" -> "by_org_membership"
      [] name = "IsPrimary" -> "by_primary_email"

if_conclusive(name, m) == incr(m, ConclusiveCounter(name))

if_inconclusive_silent(m) == m
if_inconclusive(m) == incr(m, "no_resolution")

\* The candidates the loop carries to the next step when the step did not
\* leave exactly one: an emptied tuple is replaced by last_candidates.
CarryOver_keep_empty(last, next) == next
CarryOver_never_narrow(last, next) == last
CarryOver(last, next) == IF Len(next) = 0 THEN last ELSE next

\* One iteration of the loop of resolve(), for the step called `name` whose
\* apply() returned `next`.
Iterate_no_short_circuit(name, next) ==
    /\ last_candidates' = candidates
    /\ applied' = Append(applied, name)
    /\ candidates' = CarryOver(candidates, next)
    /\ step' = step + 1
    /\ IF Len(next) = 1
       THEN /\ hook_calls' = Append(hook_calls,
                   [step |-> name, candidates |-> candidates, choice |-> next[1]])
            /\ metrics' = if_conclusive(name, metrics)
            /\ outcome' = ReturnUser(next[1])
            /\ pc' = pc
       ELSE UNCHANGED <<hook_calls, metrics, outcome, pc>>

Iterate(name, next) ==
    /\ last_candidates' = candidates
    /\ applied' = Append(applied, name)
    /\ IF Len(next) = 1
       THEN /\ candidates' = next
            /\ hook_calls' = Append(hook_calls,
                   [step |-> name, candidates |-> last_candidates', choice |-> next[1]])
            /\ metrics' = if_conclusive(name, metrics)
            /\ outcome' = ReturnUser(next[1])
            /\ pc' = "done"
            /\ step' = step
       ELSE /\ candidates' = CarryOver(candidates, next)
            /\ step' = step + 1
            /\ UNCHANGED <<hook_calls, metrics, outcome, pc>>

\* ---------------------------------------------------------------- actions
\* UserEmail.objects.filter(email__iexact=email, user__is_active=True)
Matching(e) == { r \in table : IExact(r.email, e) /\ r.user_id \in active }

\* `if not candidates: return None` of resolve_email_to_user
returns_none_never(cands) == FALSE
returns_none(cands) == Len(cands) = 0

\* resolve_email_to_user(email, organization): the query, the empty check,
\* and the call of resolve().  The query states no order.
resolve_email_to_user ==
    /\ pc = "idle"
    /\ \E e \in QueryEmails, org \in Organizations :
        \E cands \in Orderings(Matching(e)) :
            /\ entry' = "resolve_email_to_user"
            /\ email' = e
            /\ organization' = org
            /\ candidates' = cands
            /\ IF returns_none(cands)
               THEN /\ outcome' = ReturnNone
                    /\ pc' = "done"
                    /\ UNCHANGED <<entered, input>>
               ELSE /\ outcome' = outcome
                    /\ pc' = "resolve"
                    /\ entered' = TRUE
                    /\ input' = cands
    /\ UNCHANGED <<hook_calls, table, active, last_candidates, step, applied, metrics,
                   oracle_calls, users_in_org>>

\* _EmailResolver(email, organization).resolve(candidates) called directly,
\* with the one collection resolve_email_to_user never passes on.
DirectCandidates == { <<>> }

resolve_direct ==
    /\ pc = "idle"
    /\ \E e \in QueryEmails, org \in Organizations, cands \in DirectCandidates :
            /\ entry' = "resolve"
            /\ email' = e
            /\ organization' = org
            /\ candidates' = cands
            /\ input' = cands
            /\ entered' = TRUE
            /\ pc' = "resolve"
    /\ UNCHANGED <<hook_calls, table, active, last_candidates, step, applied, metrics,
                   oracle_calls, users_in_org, outcome>>

\* resolve(), before the loop: how the call ends there, Pending when it
\* goes on to the loop.
resolve_before_loop_no_empty_check(cands) ==
    IF Len(cands) = 1 THEN ReturnUser(cands[1]) ELSE Pending
resolve_before_loop_no_single_check(cands) ==
    IF Len(cands) = 0 THEN RaiseValueError ELSE Pending
resolve_before_loop(cands) ==
    IF Len(cands) = 0 THEN RaiseValueError
    ELSE IF Len(cands) = 1 THEN ReturnUser(cands[1])
    ELSE Pending

resolve ==
    /\ pc = "resolve"
    /\ outcome' = resolve_before_loop(candidates)
    /\ pc' = IF resolve_before_loop(candidates) = Pending THEN "loop" ELSE "done"
    /\ UNCHANGED <<hook_calls, table, active, entry, entered, input, email, organization,
                   candidates, last_candidates, step, applied, metrics,
                   oracle_calls, users_in_org>>

AtStep(name) == pc = "loop" /\ step \in DOMAIN get_steps /\ get_steps[step] = name

IsVerified ==
    /\ AtStep("IsVerified")
    /\ Iterate("IsVerified", IsVerified_apply(candidates))
    /\ UNCHANGED <<table, active, entry, entered, input, email, organization,
                   oracle_calls, users_in_org>>

\* HasOrgMembership when the lookup (if any) answers: without an organization
\* apply() returns () before the lookup; with one, the lookup is asked once
\* for the user ids of all candidates and answers with some of them.
returns_early_never(org) == FALSE
returns_early(org) == org = None

HasOrgMembership ==
    /\ AtStep("HasOrgMembership")
    /\ IF returns_early(organization)
       THEN /\ Iterate("HasOrgMembership",
                       HasOrgMembership_apply(organization, candidates, {}))
            /\ UNCHANGED <<oracle_calls, users_in_org>>
       ELSE \E in_org \in SUBSET Range(candidate_ids(candidates)) :
            /\ oracle_calls' = Append(oracle_calls,
                   [organization_id |-> organization,
                    user_ids |-> candidate_ids(candidates), raised |-> FALSE])
            /\ users_in_org' = in_org
            /\ Iterate("HasOrgMembership",
                       HasOrgMembership_apply(organization, candidates, in_org))
    /\ UNCHANGED <<table, active, entry, entered, input, email, organization>>

\* HasOrgMembership when get_member_summaries_by_ids raises: nothing in
\* apply() or resolve() catches it.
HasOrgMembership_raises_swallowed ==
    /\ AtStep("HasOrgMembership")
    /\ ~returns_early(organization)
    /\ oracle_calls' = Append(oracle_calls,
           [organization_id |-> organization,
            user_ids |-> candidate_ids(candidates), raised |-> TRUE])
    /\ Iterate("HasOrgMembership", <<>>)
    /\ UNCHANGED <<table, active, entry, entered, input, email, organization,
                   users_in_org>>

HasOrgMembership_raises ==
    /\ AtStep("HasOrgMembership")
    /\ ~returns_early(organization)
    /\ oracle_calls' = Append(oracle_calls,
           [organization_id |-> organization,
            user_ids |-> candidate_ids(candidates), raised |-> TRUE])
    /\ last_candidates' = candidates
    /\ applied' = Append(applied, "HasOrgMembership")
    /\ outcome' = RaiseOracleError
    /\ pc' = "done"
    /\ UNCHANGED <<hook_calls, table, active, entry, entered, input, email, organization,
                   candidates, step, metrics, users_in_org>>

IsPrimary ==
    /\ AtStep("IsPrimary")
    /\ Iterate("IsPrimary", IsPrimary_apply(candidates))
    /\ UNCHANGED <<table, active, entry, entered, input, email, organization,
                   oracle_calls, users_in_org>>

\* resolve(), after the loop: if_inconclusive, then the raise.
resolve_inconclusive ==
    /\ pc = "loop"
    /\ step = Len(get_steps) + 1
    /\ metrics' = if_inconclusive(metrics)
    /\ outcome' = AmbiguousUserFromEmail(email, candidates)
    /\ pc' = "done"
    /\ UNCHANGED <<hook_calls, table, active, entry, entered, input, email, organization,
                   candidates, last_candidates, step, applied, oracle_calls,
                   users_in_org>>

Next ==
    \/ resolve_email_to_user
    \/ resolve_direct
    \/ resolve
    \/ IsVerified
    \/ HasOrgMembership
    \/ HasOrgMembership_raises
    \/ IsPrimary
    \/ resolve_inconclusive

Spec == Init /\ [][Next]_vars

\* ================================================================ claims
NoMetrics == \A c \in Counters : metrics[c] = 0

OnlyCounter(c) == metrics[c] = 1 /\ \A d \in Counters \ {c} : metrics[d] = 0

VerifiedAt(s) == { i \in DOMAIN s : s[i].is_verified }
PrimaryAt(s) == { i \in DOMAIN s : s[i].is_primary }
MemberAt(s, ids) == { i \in DOMAIN s : s[i].user_id \in ids }

\* The call returned the user of candidate ue.
Returned(ue) == outcome.kind = "return_user" /\ outcome.user = <<ue.user_id>>

\* The membership lookup was asked and answered.
OracleAnswered == Len(oracle_calls) = 1 /\ ~oracle_calls[1].raised
OracleRaised == \E i \in DOMAIN oracle_calls : oracle_calls[i].raised

\* What the three narrowing rules leave of the input, computed from the
\* input alone: a rule that keeps nothing keeps everything.
KeepOrAll(s, Keep(_)) ==
    IF \A i \in DOMAIN s : ~Keep(s[i]) THEN s ELSE SelectSeq(s, Keep)
LeftByVerified == KeepOrAll(input, LAMBDA ue : ue.is_verified)
LeftByOrg ==
    IF organization = None THEN LeftByVerified
    ELSE KeepOrAll(LeftByVerified, LAMBDA ue : ue.user_id \in users_in_org)
LeftByPrimary == KeepOrAll(LeftByOrg, LAMBDA ue : ue.is_primary)

\* C1: when resolve() is called with two or more candidates of which exactly
\* one is verified, then once the first step has acted the call has returned
\* the user of that candidate, through IsVerified alone, and the
\* by_verification counter has been incremented; the organization, the
\* membership and the primary flags play no part.
C1_ResolvedByVerification ==
    (entered /\ applied # <<>> /\ Len(input) >= 2
        /\ Cardinality(VerifiedAt(input)) = 1)
    => /\ pc = "done"
       /\ Returned(input[CHOOSE i \in VerifiedAt(input) : TRUE])
       /\ applied = << "IsVerified" >>
       /\ metrics["by_verification"] = 1

C1_Witness ==
    /\ pc = "done"
    /\ Len(input) = 3
    /\ Cardinality(VerifiedAt(input)) = 1
    /\ organization # None
    /\ \E j \in DOMAIN input : ~input[j].is_verified /\ input[j].is_primary
    /\ \E i \in VerifiedAt(input) : ~input[i].is_primary /\ Returned(input[i])
    /\ metrics["by_verification"] = 1

\* C2: when no candidate of two or more is verified, an organization is
\* given and the membership lookup answers with the user of exactly one
\* candidate, the call returns that candidate's user through
\* HasOrgMembership and by_org_membership is the one counter incremented,
\* whatever the primary flags are.
C2_ResolvedByOrgMembership ==
    (entered /\ Len(input) >= 2 /\ VerifiedAt(input) = {}
        /\ organization # None /\ OracleAnswered
        /\ Cardinality(MemberAt(input, users_in_org)) = 1)
    => /\ pc = "done"
       /\ Returned(input[CHOOSE i \in MemberAt(input, users_in_org) : TRUE])
       /\ applied = << "IsVerified", "HasOrgMembership" >>
       /\ OnlyCounter("by_org_membership")

C2_Witness ==
    /\ pc = "done"
    /\ Len(input) >= 2
    /\ VerifiedAt(input) = {}
    /\ organization # None
    /\ OracleAnswered
    /\ \E i \in DOMAIN input :
        /\ MemberAt(input, users_in_org) = {i}
        /\ ~input[i].is_primary
        /\ Returned(input[i])
    /\ \E j \in DOMAIN input : input[j].is_primary
    /\ OnlyCounter("by_org_membership")

\* C3: when all three steps have run and none left a single candidate, the
\* call ends with AmbiguousUserFromEmail carrying the users of exactly the
\* candidates that remain, in their order, these being what the three rules
\* leave of the input, and no_resolution has been incremented once (and not
\* before the end of the loop).
C3_AmbiguousCarriesRemaining ==
    /\ (pc = "done" /\ Len(applied) = 3 /\ outcome.kind # "return_user")
       => /\ outcome.kind = "AmbiguousUserFromEmail"
          /\ outcome.email = email
          /\ Len(outcome.users) = Len(candidates)
          /\ \A i \in DOMAIN candidates : outcome.users[i] = candidates[i].user_id
          /\ candidates = LeftByPrimary
          /\ metrics["no_resolution"] = 1
    /\ pc # "done" => metrics["no_resolution"] = 0

C3_Witness ==
    /\ pc = "done"
    /\ outcome.kind = "AmbiguousUserFromEmail"
    /\ Len(input) = 3
    /\ Len(candidates) = 2
    /\ Len(outcome.users) = 2
    /\ metrics["no_resolution"] = 1

\* C4: when resolve() is called with exactly one candidate it returns that
\* candidate's user before the loop: no step is applied, the membership
\* lookup is not asked and no counter is incremented.
C4_SingleCandidateImmediate ==
    (entered /\ Len(input) = 1 /\ pc # "resolve")
    => /\ pc = "done"
       /\ Returned(input[1])
       /\ applied = <<>>
       /\ oracle_calls = <<>>
       /\ NoMetrics

C4_Witness ==
    /\ pc = "done"
    /\ Len(input) = 1
    /\ input[1].is_verified
    /\ organization # None
    /\ Returned(input[1])
    /\ NoMetrics

\* C5: resolve() called with no candidates raises ValueError: it does not
\* return a no-match value.  No step is applied, the membership lookup is
\* not asked and no counter is incremented.
C5_EmptyRaisesValueError ==
    (entered /\ Len(input) = 0 /\ pc # "resolve")
    => /\ pc = "done"
       /\ outcome.kind = "ValueError"
       /\ applied = <<>>
       /\ oracle_calls = <<>>
       /\ NoMetrics

C5_Witness ==
    /\ entry = "resolve"
    /\ entered
    /\ pc = "done"
    /\ Len(input) = 0
    /\ outcome.kind = "ValueError"

\* C5 as stated: resolve() called with no candidates ends with the no-match
\* value as an ordinary return, with no step applied and no counter touched.
C5_EmptyReturnsNoMatch ==
    (entered /\ Len(input) = 0 /\ pc = "done")
    => /\ outcome.kind = "return_none"
       /\ applied = <<>>
       /\ NoMetrics

\* C6: without an organization the membership lookup is never asked, the
\* HasOrgMembership step leaves the candidates as IsVerified left them and
\* goes on to IsPrimary, so IsPrimary receives what IsVerified left; a call
\* with two or more candidates ends either at IsVerified with its single
\* survivor or after IsPrimary has been applied.
C6_NoOrganizationNoOp ==
    (entered /\ organization = None)
    => /\ oracle_calls = <<>>
       /\ Len(applied) = 2
          => /\ pc = "loop" /\ step = 3
             /\ last_candidates = LeftByVerified
             /\ candidates = LeftByVerified
       /\ Len(applied) = 3 => last_candidates = LeftByVerified
       /\ (pc = "done" /\ Len(input) >= 2)
          => \/ applied = << "IsVerified" >> /\ Cardinality(VerifiedAt(input)) = 1
             \/ applied = get_steps

C6_Witness ==
    /\ organization = None
    /\ pc = "done"
    /\ applied = get_steps
    /\ Len(input) = 3
    /\ Len(last_candidates) = 2
    /\ last_candidates = LeftByVerified
    /\ oracle_calls = <<>>

\* C7: for each of the three steps, when the step keeps none of the
\* candidates it is given, the candidates after it are the candidates before
\* it, its counter is not incremented, and the loop goes on to the next step
\* (after the last step, to the ambiguous end).
KeepsNone(name, cands) ==
    CASE name = "IsVerified" -> VerifiedAt(cands) = {}
      [] name = "HasOrgMembership" ->
            organization = None \/ MemberAt(cands, users_in_org) = {}
      [] name = "IsPrimary" -> PrimaryAt(cands) = {}

C7_NoOpRule ==
    \A k \in 1..3 :
        (Len(applied) = k /\ ~OracleRaised /\ KeepsNone(get_steps[k], last_candidates))
        => /\ applied[k] = get_steps[k]
           /\ candidates = last_candidates
           /\ metrics[ConclusiveCounter(get_steps[k])] = 0
           /\ outcome.kind # "return_user"
           /\ IF k < 3 THEN pc = "loop" /\ step = k + 1
              ELSE \/ pc = "loop" /\ step = 4
                   \/ pc = "done" /\ outcome.kind = "AmbiguousUserFromEmail"

C7_Witness ==
    /\ pc = "done"
    /\ outcome.kind = "AmbiguousUserFromEmail"
    /\ organization # None
    /\ OracleAnswered
    /\ \A k \in 1..3 : KeepsNone(get_steps[k], input)
    /\ Len(input) >= 2
    /\ candidates = input

\* C8: when the membership lookup raises, the call ends there with that
\* failure: IsPrimary is not applied, no user is returned, no ambiguity is
\* reported and no counter is incremented.
C8_OracleFailureSurfaces ==
    OracleRaised
    => /\ pc = "done"
       /\ outcome.kind = "oracle_error"
       /\ applied = << "IsVerified", "HasOrgMembership" >>
       /\ Len(oracle_calls) = 1
       /\ NoMetrics

C8_Witness ==
    /\ OracleRaised
    /\ pc = "done"
    /\ outcome.kind = "oracle_error"
    /\ Len(candidates) >= 2
    /\ Cardinality(PrimaryAt(candidates)) = 1

\* C9: when the first two steps have run without leaving a single candidate
\* and exactly one of the candidates they leave is primary, the call returns
\* that candidate's user and by_primary_email is the only counter
\* incremented.
C9_ResolvedByPrimary ==
    (Len(applied) = 3 /\ Cardinality(PrimaryAt(last_candidates)) = 1)
    => /\ last_candidates = LeftByOrg
       /\ pc = "done"
       /\ Returned(last_candidates[CHOOSE i \in PrimaryAt(last_candidates) : TRUE])
       /\ OnlyCounter("by_primary_email")

\* Two verified candidates, one of them primary, no organization.
C9_Witness ==
    /\ pc = "done"
    /\ organization = None
    /\ Len(input) = 2
    /\ VerifiedAt(input) = {1, 2}
    /\ \E i \in {1, 2} : PrimaryAt(input) = {i} /\ Returned(input[i])
    /\ Len(last_candidates) = 2
    /\ OnlyCounter("by_primary_email")

\* C10: resolve_email_to_user returns None exactly when the query finds no
\* row, and then resolve() is not called, no step is applied, the lookup is
\* not asked and no counter is incremented; an ambiguity is reported only
\* with two or more candidates remaining.
SourceIsEmpty ==
    \A r \in table : ~(Lower(r.email) = Lower(email) /\ r.user_id \in active)

C10_NoneIffNoCandidates ==
    (entry = "resolve_email_to_user")
    => /\ IF outcome.kind = "return_none" THEN SourceIsEmpty ELSE ~SourceIsEmpty
       /\ outcome.kind = "return_none"
          => /\ pc = "done"
             /\ ~entered
             /\ applied = <<>>
             /\ oracle_calls = <<>>
             /\ NoMetrics
       /\ outcome.kind = "AmbiguousUserFromEmail"
          => /\ Len(candidates) >= 2
             /\ Len(outcome.users) >= 2

C10_Witness ==
    /\ entry = "resolve_email_to_user"
    /\ pc = "done"
    /\ outcome.kind = "return_none"
    /\ table # {}
    /\ \E r \in table : r.user_id \notin active /\ Lower(r.email) = Lower(email)

\* What the membership lookup did in this call.
Answer == [raised |-> OracleRaised, ids |-> users_in_org]

Incremented(counter) ==
    IF counter = "none" THEN NoMetrics ELSE OnlyCounter(counter)

\* How the call ended, the order of the users of an ambiguity left aside, and
\* the counter it incremented.
End(counter) ==
    [kind |-> outcome.kind, user |-> outcome.user, email |-> outcome.email,
     users |-> Range(outcome.users),
     remaining |-> IF outcome.kind = "AmbiguousUserFromEmail"
                   THEN Range(candidates) ELSE {},
     counter |-> counter]

ReturnsOf(S, c) ==
    LET ue == CHOOSE r \in S : TRUE
    IN  [kind |-> "return_user", user |-> <<ue.user_id>>, email |-> None,
         users |-> {}, remaining |-> {}, counter |-> c]

RaisesOf(k) ==
    [kind |-> k, user |-> None, email |-> None, users |-> {}, remaining |-> {},
     counter |-> "none"]

\* A narrowing rule on a set of candidates: keeping none keeps all.
KeptOrAll(S, K) == IF K = {} THEN S ELSE K

\* The end of resolve() written on the SET of its candidates: nothing in it
\* refers to a position or an order.
EndOfSet(e, org, S, answer) ==
    LET V  == { r \in S : r.is_verified }
        S1 == KeptOrAll(S, V)
        M  == { r \in S1 : r.user_id \in answer.ids }
        S2 == IF org = None THEN S1 ELSE KeptOrAll(S1, M)
        P  == { r \in S2 : r.is_primary }
        S3 == KeptOrAll(S2, P)
    IN  IF S = {} THEN RaisesOf("ValueError")
        ELSE IF Cardinality(S) = 1 THEN ReturnsOf(S, "none")
        ELSE IF Cardinality(V) = 1 THEN ReturnsOf(V, "by_verification")
        ELSE IF org # None /\ answer.raised THEN RaisesOf("oracle_error")
        ELSE IF org # None /\ Cardinality(M) = 1 THEN ReturnsOf(M, "by_org_membership")
        ELSE IF Cardinality(P) = 1 THEN ReturnsOf(P, "by_primary_email")
        ELSE [kind |-> "AmbiguousUserFromEmail", user |-> None, email |-> e,
              users |-> { r.user_id : r \in S3 }, remaining |-> S3,
              counter |-> "no_resolution"]

\* C11: the end of a call and the counter it increments are decided by the
\* set of candidates, the organization and what the membership lookup does,
\* not by the order of the candidates: the returned user, or the exception
\* with the set of candidates remaining at an ambiguity and the set of their
\* users, and the one counter incremented are those written on the set of the
\* candidates.  The candidates of a call come
\* in every order, so two calls on the same candidates in different orders
\* end alike.
C11_OrderIndependent ==
    (entered /\ pc = "done")
    => LET by_set == EndOfSet(email, organization, Range(input), Answer)
       IN  /\ Cardinality(Range(input)) = Len(input)
           /\ End(by_set.counter) = by_set
           /\ Incremented(by_set.counter)

\* Three candidates, the rows of one user first and last, two of them left
\* by IsVerified, ambiguous at the end.
C11_Witness ==
    /\ pc = "done"
    /\ Len(input) = 3
    /\ input[1].user_id = input[3].user_id
    /\ input[1].user_id # input[2].user_id
    /\ Cardinality(VerifiedAt(input)) = 2
    /\ organization # None
    /\ OracleAnswered
    /\ outcome.kind = "AmbiguousUserFromEmail"
    /\ Len(outcome.users) = 2

\* What the first k steps leave of the input.
LeftAfter(k) ==
    CASE k = 0 -> input
      [] k = 1 -> LeftByVerified
      [] k = 2 -> LeftByOrg
      [] k = 3 -> LeftByPrimary

\* C12: as soon as a step leaves a single candidate, that step's
\* if_conclusive is called with the candidates as they were before the step
\* and the survivor, the survivor's user is returned and no later step is
\* applied; while the loop goes on no hook has been called and at least two
\* candidates are left.  When IsVerified resolves, the membership lookup is
\* not asked and no other counter is incremented.
C12_ShortCircuit ==
    /\ (entered /\ pc = "loop")
       => /\ Len(candidates) >= 2
          /\ hook_calls = <<>>
          /\ outcome.kind = "pending"
    /\ hook_calls # <<>> => outcome.kind = "return_user"
    /\ (outcome.kind = "return_user" /\ applied # <<>>)
       => LET k == Len(applied)
          IN  /\ pc = "done"
              /\ step = k
              /\ applied = SubSeq(get_steps, 1, k)
              /\ last_candidates = LeftAfter(k - 1)
              /\ Len(candidates) = 1
              /\ candidates[1] \in Range(last_candidates)
              /\ Returned(candidates[1])
              /\ hook_calls = << [step |-> get_steps[k],
                                  candidates |-> last_candidates,
                                  choice |-> candidates[1]] >>
              /\ OnlyCounter(ConclusiveCounter(get_steps[k]))
              /\ k = 1 => oracle_calls = <<>>

\* HasOrgMembership resolves after IsVerified has narrowed three to two.
C12_Witness ==
    /\ pc = "done"
    /\ Len(input) = 3
    /\ applied = << "IsVerified", "HasOrgMembership" >>
    /\ Len(hook_calls) = 1
    /\ hook_calls[1].step = "HasOrgMembership"
    /\ Len(hook_calls[1].candidates) = 2
    /\ outcome.kind = "return_user"
    /\ \E r \in Range(input) : r.is_primary

\* C13: a step that keeps two or more candidates hands only those to the
\* later steps: the candidates a step receives are what the steps before it
\* leave of the input, so a candidate dropped by an earlier step is neither
\* the one returned nor among those of the ambiguity.
Dropped == Range(input) \ Range(last_candidates)

C13_NarrowingRetained ==
    (entered /\ applied # <<>>)
    => LET k == Len(applied)
       IN  /\ last_candidates = LeftAfter(k - 1)
           /\ pc = "loop" => candidates = LeftAfter(k)
           /\ Range(candidates) \cap Dropped = {}
           /\ outcome.kind = "return_user"
              => \E r \in Range(last_candidates) : Returned(r) /\ candidates = <<r>>
           /\ outcome.kind = "AmbiguousUserFromEmail"
              => /\ candidates = LeftAfter(3)
                 /\ outcome.users = [i \in DOMAIN candidates |-> candidates[i].user_id]

\* Two verified candidates that are no members and one unverified candidate
\* of another user: the lookup is not asked about that user, whose
\* membership therefore plays no part, and the candidate is not the result.
C13_Witness ==
    /\ pc = "done"
    /\ Len(input) = 3
    /\ Cardinality(VerifiedAt(input)) = 2
    /\ organization # None
    /\ OracleAnswered
    /\ users_in_org = {}
    /\ \E i \in DOMAIN input :
        /\ ~input[i].is_verified
        /\ input[i].user_id \notin Range(oracle_calls[1].user_ids)
        /\ input[i] \in Dropped
        /\ input[i] \notin Range(candidates)
        /\ ~Returned(input[i])
    /\ outcome.kind \in { "return_user", "AmbiguousUserFromEmail" }

\* C14: in a call with two or more candidates, the current candidates are
\* never none, are always among the input, and after each step are among
\* those before it, in the same order and no more of them; a returned user
\* is the user of an input candidate and an ambiguity carries the users of
\* at least two input candidates.
RECURSIVE IsSubSeq(_, _)
IsSubSeq(s, t) ==
    IF Len(s) = 0 THEN TRUE
    ELSE IF Len(t) = 0 THEN FALSE
    ELSE IF Head(s) = Head(t) THEN IsSubSeq(Tail(s), Tail(t))
    ELSE IsSubSeq(s, Tail(t))

C14_NonEmptySubsetOfInput ==
    (entered /\ Len(input) >= 2)
    => /\ Len(candidates) >= 1
       /\ IF applied = <<>>
          THEN candidates = input
          ELSE /\ IsSubSeq(candidates, last_candidates)
               /\ IsSubSeq(last_candidates, input)
       /\ outcome.kind = "return_user"
          => \E r \in Range(input) : outcome.user = <<r.user_id>>
       /\ outcome.kind = "AmbiguousUserFromEmail"
          => /\ Len(outcome.users) >= 2
             /\ IsSubSeq(outcome.users, [i \in DOMAIN input |-> input[i].user_id])
       /\ pc = "done"
          => outcome.kind \in { "return_user", "AmbiguousUserFromEmail", "oracle_error" }

C14_Witness ==
    /\ pc = "loop"
    /\ step = 3
    /\ Len(input) = 3
    /\ Len(last_candidates) = 3
    /\ Len(candidates) = 2
    /\ organization # None

\* C15: in one call the membership lookup is asked at most once, and then
\* in a single request for the given organization with the user ids of
\* exactly the candidates IsVerified left, one id per candidate.
C15_OneBatchedLookup ==
    /\ Len(oracle_calls) <= 1
    /\ Len(oracle_calls) = 1
       => /\ "HasOrgMembership" \in Range(applied)
          /\ organization # None
          /\ oracle_calls[1].organization_id = organization
          /\ oracle_calls[1].user_ids =
                [i \in DOMAIN LeftByVerified |-> LeftByVerified[i].user_id]
    /\ (Len(applied) >= 2 /\ organization # None) => Len(oracle_calls) = 1

C15_Witness ==
    /\ Len(oracle_calls) = 1
    /\ Len(input) = 3
    /\ Len(oracle_calls[1].user_ids) = 2
    /\ pc = "done"
    /\ ~oracle_calls[1].raised

\* C16: the candidates resolve_email_to_user hands to resolve() are unique by
\* user, so an ambiguity names at least two distinct users and two rows of
\* one user whose addresses match the email up to letter case never make a
\* call ambiguous.  Stated for the calls that end in an ambiguity.
UniqueByUser(cands) ==
    \A i, j \in DOMAIN cands : cands[i].user_id = cands[j].user_id => i = j

C16_AmbiguityAmongDistinctUsers ==
    (entry = "resolve_email_to_user" /\ outcome.kind = "AmbiguousUserFromEmail")
    => /\ UniqueByUser(input)
       /\ Cardinality(Range(outcome.users)) >= 2

\* C17: a call with two or more candidates that ends without a failure of
\* the membership lookup has incremented exactly one counter, once: that of
\* the step that left the single survivor when a user is returned,
\* no_resolution when the call is ambiguous.  A call ended by a failure of
\* the lookup has incremented none, and no counter is incremented before
\* the call ends.
C17_ExactlyOneCounter ==
    (entered /\ Len(input) >= 2)
    => /\ pc # "done" => NoMetrics
       /\ OracleRaised => NoMetrics
       /\ (pc = "done" /\ ~OracleRaised)
          => /\ outcome.kind \in { "return_user", "AmbiguousUserFromEmail" }
             /\ outcome.kind = "return_user"
                => OnlyCounter(ConclusiveCounter(applied[Len(applied)]))
             /\ outcome.kind = "AmbiguousUserFromEmail"
                => OnlyCounter("no_resolution")

C17_Witness ==
    /\ pc = "done"
    /\ Len(input) = 3
    /\ organization # None
    /\ OracleAnswered
    /\ outcome.kind = "AmbiguousUserFromEmail"
    /\ OnlyCounter("no_resolution")
    /\ Len(candidates) = 3

====
